---- MODULE Spec2Model ----
(***************************************************************************)
(* Model of the n-gram engine: NGramGenerator (ngram_classes/generator.py) *)
(* and NGramBuilder (ngram_classes/builder.py).                            *)
(*                                                                         *)
(* Representation.  A Python str is a sequence of one-character strings    *)
(* (<<"a", " ", "b">> is "a b"), so that str.split and str.join are        *)
(* computed and not assumed.  A Python dict is a function.  None is the    *)
(* empty tuple and a value x that may be None is held as <<x>>.  A Python  *)
(* list that is only ever read by random.choice is held as a bag (token    *)
(* |-> number of copies).                                                  *)
(***************************************************************************)
EXTENDS Integers, Sequences, FiniteSets, TLC

\* ------------------------------------------------------------------ bounds
MaxCount == 1
MaxSeedLen == 2
MaxTextLen == 3
MaxDocs == 2
MaxN == 3
MaxAdds == 2

\* --------------------------------------------------------- Python helpers
None == <<>>
Some(x) == <<x>>
Get(o) == o[1]

Whitespace == {" "}

\* Drops the leading whitespace of s.
RECURSIVE lstrip(_)
lstrip(s) ==
    IF s = <<>> THEN <<>>
    ELSE IF Head(s) \in Whitespace THEN lstrip(Tail(s))
    ELSE s

\* The longest whitespace-free prefix of s.
RECURSIVE first_word(_)
first_word(s) ==
    IF s = <<>> THEN <<>>
    ELSE IF Head(s) \in Whitespace THEN <<>>
    ELSE <<Head(s)>> \o first_word(Tail(s))

\* str.split() with no argument: the maximal whitespace-free runs of s.
RECURSIVE split(_)
split(s) ==
    LET t == lstrip(s)
        w == first_word(t)
    IN  IF t = <<>> THEN <<>>
        ELSE <<w>> \o split(SubSeq(t, Len(w) + 1, Len(t)))

\* " ".join(tokens)
RECURSIVE join(_)
join(tokens) ==
    IF tokens = <<>> THEN <<>>
    ELSE IF Len(tokens) = 1 THEN tokens[1]
    ELSE tokens[1] \o <<" ">> \o join(Tail(tokens))

\* The list built by extending with [token] * count for every item of the
\* dict d, up to order: token |-> number of copies ([t] * c is empty for
\* c <= 0).
spreadout_of(d) ==
    [t \in {x \in DOMAIN d : d[x] > 0} |-> d[t]]

\* random.choice(pool): the tokens it can return; empty when it raises
\* IndexError.
choices(pool) == DOMAIN pool

\* ------------------------------------------------------ Generator: inputs
tok_a == <<"a">>
tok_b == <<"b">>
Tokens == {tok_a, tok_b}

key_empty == <<>>
key_a == <<"a">>
key_ab == <<"a", " ", "b">>
KeySet == {key_empty, key_a, key_ab}

Counts == 0 .. MaxCount

\* The "vocab" field: token -> count.  Token b may be absent from it.
VocabDicts == UNION {[D -> Counts] : D \in {{tok_a}, Tokens}}

\* The next-token counts of one context key: token -> count.
NextDicts == [Tokens -> Counts]

\* The "model" field: context key -> (token -> count).  The keys of KeySet
\* have zero, one and two tokens, so a model with two of them is one of
\* non-uniform order.
ModelDicts == {[k \in K |-> d] : K \in SUBSET KeySet, d \in NextDicts}

\* Arguments of load_model: a dict with both fields, or one lacking a field.
ModelData ==
    {[vocab |-> v, model |-> m] : v \in VocabDicts, m \in ModelDicts}
    \cup {[vocab |-> v] : v \in VocabDicts}
    \cup {[model |-> m] : m \in ModelDicts}
    \cup {[other |-> 0]}

\* Lists of at most MaxSeedLen tokens
TokenLists == UNION {[1 .. k -> Tokens] : k \in 0 .. MaxSeedLen}

\* Arguments of __call__: a str of space-separated tokens, a list or a tuple
Seeds ==
    {[type |-> "str", value |-> join(l)] : l \in TokenLists}
    \cup {[type |-> ty, value |-> l] : ty \in {"list", "tuple"}, l \in TokenLists}

\* ------------------------------------------------------------------ state
\* The Generator's fields, the outcome of the last call on it and whether a
\* __call__ has returned normally.
VARIABLES param_n, vocab, model, state, vocab_spreadout, result, started

\* The Builder (its fields n, vocab and model) and the token sequences of
\* the documents it was given, in order.
VARIABLES builder, docs

\* The text given to generate_tokens and the tokens it returned (None
\* before it returns).
VARIABLES raw_text, tokenized

\* The Builders held by the program variables a, b and r (name |-> fields, the
\* fields vocab and model holding references), the dicts referred to
\* (reference |-> dict), the texts each Builder has learned, in order, the number of add_source calls made and the exception of
\* the last call.
VARIABLES blds, objs, mdocs, adds, mresult

gen_vars == <<param_n, vocab, model, state, vocab_spreadout, result, started>>
build_vars == <<builder, docs>>
tok_vars == <<raw_text, tokenized>>
merge_vars == <<blds, objs, mdocs, adds, mresult>>
vars == <<gen_vars, build_vars, tok_vars, merge_vars>>

\* The state of a component that a specification does not exercise.
GenIdle ==
    /\ param_n = None
    /\ vocab = None
    /\ model = None
    /\ state = None
    /\ vocab_spreadout = None
    /\ started = FALSE

TokIdle == raw_text = <<>> /\ tokenized = None

MergeIdle ==
    /\ blds = <<>>
    /\ objs = <<>>
    /\ mdocs = <<>>
    /\ adds = 0
    /\ mresult = <<>>

\* Outcome of a call: the exception raised ("ok" when none) and its message,
\* and the returned token, if any.
Outcome(op, exc, msg, tok) ==
    [op |-> op, exc |-> exc, msg |-> msg, tok |-> tok]

\* --------------------------------------------------- Generator: load_model
load_model(old_spreadout, data) ==
    IF "vocab" \notin DOMAIN data \/ "model" \notin DOMAIN data
    THEN \* KeyError: vocab_spreadout has not been assigned yet
         [param_n |-> None, vocab |-> None, model |-> None,
          vocab_spreadout |-> old_spreadout,
          exc |-> "KeyError", msg |-> "Broken model file: Missing field"]
    ELSE LET key_sizes == {Len(split(keyphrase)) : keyphrase \in DOMAIN data.model}
         IN  IF Cardinality(key_sizes) # 1
             THEN [param_n |-> None, vocab |-> None, model |-> None,
                   vocab_spreadout |-> Some(spreadout_of(data.vocab)),
                   exc |-> "ValueError",
                   msg |-> "Broken model file: non-uniform parameter N"]
             ELSE [param_n |-> Some((CHOOSE s \in key_sizes : TRUE) + 1),
                   vocab |-> Some(data.vocab), model |-> Some(data.model),
                   vocab_spreadout |-> Some(spreadout_of(data.vocab)),
                   exc |-> "ok", msg |-> ""]

\* ------------------------------------------------------ Generator: predict
\* Lines 141-143: the list holding [token] * count for every next-token of
\* the context key.
model_spreadout_plus_one(next_tokens) ==
    [t \in DOMAIN next_tokens |-> next_tokens[t] + 1]

model_spreadout(next_tokens) == spreadout_of(next_tokens)

\* The set of outcomes of predict(init_key), init_key a str.

predict(n, v, m, pool, init_key) ==
    IF v = None \/ n = None \/ m = None \/ pool = None
    THEN {[exc |-> "ValueError", msg |-> "Cannot predict without loading a model!",
           tok |-> None]}
    ELSE LET key_tokens == split(init_key)
             keyphrase == join(key_tokens)
         IN  IF Len(key_tokens) # Get(n) - 1
             THEN {[exc |-> "ValueError",
                    msg |-> "Initial Phrase must have (N - 1) tokens", tok |-> None]}
             ELSE LET candidates ==
                          IF keyphrase \in DOMAIN Get(m)
                          THEN choices(model_spreadout(Get(m)[keyphrase]))
                          ELSE choices(Get(pool))
                  IN  IF candidates = {}
                      THEN {[exc |-> "IndexError",
                             msg |-> "Cannot choose from an empty sequence",
                             tok |-> None]}
                      ELSE {[exc |-> "ok", msg |-> "", tok |-> Some(t)] :
                              t \in candidates}

\* ----------------------------------------------------- Generator: __call__
call(n, init_key) ==
    LET new_state ==
            IF init_key.type = "str" THEN Some(split(init_key.value))
            ELSE Some(init_key.value)
    IN  IF n = None
        THEN [state |-> new_state, exc |-> "TypeError",
              msg |-> "unsupported operand type(s) for -"]
        ELSE IF Len(Get(new_state)) # Get(n) - 1
        THEN [state |-> new_state, exc |-> "ValueError",
              msg |-> "Starting phrase does not have (N -1) tokens"]
        ELSE [state |-> new_state, exc |-> "ok", msg |-> ""]

\* ----------------------------------------------------- Generator: __next__
\* The set of outcomes of next(generator): the new state and what is
\* returned or raised.
next(n, v, m, pool, st) ==
    IF st = None
    THEN {[state |-> st, exc |-> "StopIteration", msg |-> "", tok |-> None]}
    ELSE {IF p.exc # "ok"
          THEN [state |-> st, exc |-> p.exc, msg |-> p.msg, tok |-> None]
          ELSE IF Get(st) = <<>>
          THEN [state |-> st, exc |-> "IndexError",
                msg |-> "pop from empty list", tok |-> None]
          ELSE [state |-> Some(Append(Tail(Get(st)), Get(p.tok))),
                exc |-> "ok", msg |-> "", tok |-> p.tok] :
            p \in predict(n, v, m, pool, join(Get(st)))}

\* ----------------------------------------------- Builder: generate_tokens
\* Characters of the training texts: a letter, in upper case so that
\* lower() acts on it, a punctuation character and the space.
Alphabet == {"A", ".", " "}

\* string.punctuation, within the characters modelled
Punctuation == {".", "'"}

\* unidecode(text).lower(), character by character: ASCII characters are
\* their own transliteration.
lower(c) ==
    IF c = "A" THEN "a"
    ELSE IF c = "B" THEN "b"
    ELSE IF c = "T" THEN "t"
    ELSE c

precleaned_of(text) == [i \in 1 .. Len(text) |-> lower(text[i])]

\* re.sub("([<punctuation>])", " \g<0> ", s)
RECURSIVE punctspace_of(_)
punctspace_of(s) ==
    IF s = <<>> THEN <<>>
    ELSE IF Head(s) \in Punctuation
    THEN <<" ", Head(s), " ">> \o punctspace_of(Tail(s))
    ELSE <<Head(s)>> \o punctspace_of(Tail(s))

\* s.replace(old, new): every non-overlapping occurrence, leftmost first
RECURSIVE replace(_, _, _)
replace(s, old, new) ==
    IF Len(s) < Len(old) THEN s
    ELSE IF SubSeq(s, 1, Len(old)) = old
    THEN new \o replace(SubSeq(s, Len(old) + 1, Len(s)), old, new)
    ELSE <<Head(s)>> \o replace(Tail(s), old, new)

\* re.sub(r"\s+", " ", s)
RECURSIVE single_spaces_of(_)
single_spaces_of(s) ==
    IF s = <<>> THEN <<>>
    ELSE IF Head(s) \in Whitespace
    THEN <<" ">> \o single_spaces_of(lstrip(s))
    ELSE <<Head(s)>> \o single_spaces_of(Tail(s))

generate_tokens(text) ==
    LET precleaned == precleaned_of(text)
        punctspace == punctspace_of(precleaned)
        ellipsis_restored ==
            replace(punctspace, <<".", " ", ".", " ", ".">>, <<".", ".", ".">>)
        quote_t_restored ==
            replace(ellipsis_restored, <<" ", "'", "t">>, <<"'", "t">>)
        single_spaces == single_spaces_of(quote_t_restored)
    IN  split(single_spaces)

\* --------------------------------------------------- Builder: add_source
\* NGramBuilder(n): the fields after __init__
NGramBuilder(n) == [n |-> n, vocab |-> <<>>, model |-> <<>>]

\* d[k] += 1 on a defaultdict(int)
increment(d, k) ==
    [x \in DOMAIN d \cup {k} |->
        IF x = k THEN (IF k \in DOMAIN d THEN d[k] ELSE 0) + 1 ELSE d[x]]

\* [tokens[offset:] for offset in range(n + 1)]
offsetted_sequences_of_one_more(tokens, n) ==
    [j \in 1 .. n + 1 |-> SubSeq(tokens, j, Len(tokens))]

\* [tokens[offset:] for offset in range(n)]
offsetted_sequences_of(tokens, n) ==
    [j \in 1 .. n |-> SubSeq(tokens, j, Len(tokens))]

Min(S) == CHOOSE x \in S : \A y \in S : x <= y

\* list(zip(*seqs)): the tuples of the i-th elements, as many as the
\* shortest sequence has elements; no tuple when there is no sequence.
zip(seqs) ==
    IF seqs = <<>> THEN <<>>
    ELSE [i \in 1 .. Min({Len(seqs[j]) : j \in 1 .. Len(seqs)}) |->
            [j \in 1 .. Len(seqs) |-> seqs[j][i]]]

\* The loop of lines 34-37 over the token tuples.
RECURSIVE count_tuples(_, _)
count_tuples(m, tuples) ==
    IF tuples = <<>> THEN m
    ELSE LET token_tuple == Head(tuples)
             key_tokens == SubSeq(token_tuple, 1, Len(token_tuple) - 1)
             next_token == token_tuple[Len(token_tuple)]
             key == join(key_tokens)
             next_tokens == IF key \in DOMAIN m THEN m[key] ELSE <<>>
         IN  count_tuples(
                 [k \in DOMAIN m \cup {key} |->
                     IF k = key THEN increment(next_tokens, next_token) ELSE m[k]],
                 Tail(tuples))

\* The loop of lines 39-40 over the tokens.
RECURSIVE count_tokens(_, _)
count_tokens(v, tokens) ==
    IF tokens = <<>> THEN v
    ELSE count_tokens(increment(v, Head(tokens)), Tail(tokens))

\* The tokens that lie in some window of n tokens.
window_tokens(tokens, n) ==
    IF n >= 1 /\ Len(tokens) >= n THEN tokens ELSE <<>>

\* add_source counting in vocab only the tokens of the windows.
add_source_vocab_of_windows(b, text) ==
    LET tokens == generate_tokens(text)
    IN  [n |-> b.n,
         vocab |-> count_tokens(b.vocab, window_tokens(tokens, b.n)),
         model |-> count_tuples(b.model, zip(offsetted_sequences_of(tokens, b.n)))]

\* The Builder b after b.add_source(text)
add_source(b, text) ==
    LET tokens == generate_tokens(text)
        offsetted_sequences == offsetted_sequences_of(tokens, b.n)
    IN  [n |-> b.n,
         vocab |-> count_tokens(b.vocab, tokens),
         model |-> count_tuples(b.model, zip(offsetted_sequences))]

\* ------------------------------------------------------ Builder: actions
Texts == UNION {[1 .. k -> Alphabet] : k \in 0 .. MaxTextLen}

BuildInit ==
    /\ \E n \in 0 .. MaxN : builder = NGramBuilder(n)
    /\ docs = <<>>
    /\ param_n = None
    /\ vocab = None
    /\ model = None
    /\ state = None
    /\ vocab_spreadout = None
    /\ result = Outcome("init", "ok", "", None)
    /\ started = FALSE
    /\ TokIdle
    /\ MergeIdle

DoAddSource(source) ==
    /\ Len(docs) < MaxDocs
    /\ builder' = add_source(builder, source)
    /\ docs' = Append(docs, generate_tokens(source))
    /\ UNCHANGED <<gen_vars, tok_vars, merge_vars>>

BuildNext == \E source \in Texts : DoAddSource(source)

SpecBuild == BuildInit /\ [][BuildNext]_vars

\* ------------------------------------------------- Builder: data and save
\* The data property: plain dicts of the two defaultdicts
builder_data_model_of_vocab(b) ==
    [vocab |-> b.vocab, model |-> [k \in DOMAIN b.model |-> b.vocab]]

builder_data(b) ==
    [vocab |-> [token \in DOMAIN b.vocab |-> b.vocab[token]],
     model |-> [k \in DOMAIN b.model |->
                   [token \in DOMAIN b.model[k] |-> b.model[k][token]]]]

\* JSON text of an int and the int of a JSON number
digits == <<"0", "1", "2", "3", "4", "5", "6", "7", "8", "9">>

RECURSIVE int_dumps(_)
int_dumps(i) ==
    IF i < 10 THEN <<digits[i + 1]>>
    ELSE int_dumps(i \div 10) \o <<digits[(i % 10) + 1]>>

RECURSIVE int_loads(_)
int_loads(s) ==
    IF s = <<>> THEN 0
    ELSE 10 * int_loads(SubSeq(s, 1, Len(s) - 1))
         + (CHOOSE d \in 0 .. 9 : digits[d + 1] = s[Len(s)])

\* json.dump of a dict of counts: its members, (name, number) pairs, one
\* after the other
RECURSIVE counts_dumps(_)
counts_dumps(d) ==
    IF DOMAIN d = {} THEN <<>>
    ELSE LET name == CHOOSE k \in DOMAIN d : TRUE
         IN  <<<<name, int_dumps(d[name])>>>>
             \o counts_dumps([k \in DOMAIN d \ {name} |-> d[k]])

\* json.load of an object of numbers: a later member of the same name wins
counts_loads(members) ==
    [name \in {members[i][1] : i \in DOMAIN members} |->
        LET last == CHOOSE i \in DOMAIN members :
                        /\ members[i][1] = name
                        /\ \A j \in DOMAIN members :
                               members[j][1] = name => j <= i
        IN  int_loads(members[last][2])]

RECURSIVE table_dumps(_)
table_dumps(m) ==
    IF DOMAIN m = {} THEN <<>>
    ELSE LET name == CHOOSE k \in DOMAIN m : TRUE
         IN  <<<<name, counts_dumps(m[name])>>>>
             \o table_dumps([k \in DOMAIN m \ {name} |-> m[k]])

table_loads(members) ==
    [name \in {members[i][1] : i \in DOMAIN members} |->
        LET last == CHOOSE i \in DOMAIN members :
                        /\ members[i][1] = name
                        /\ \A j \in DOMAIN members :
                               members[j][1] = name => j <= i
        IN  counts_loads(members[last][2])]

\* json.dump(self.data, file_object) in save
json_dump(d) ==
    [vocab |-> counts_dumps(d.vocab), model |-> table_dumps(d.model)]

\* json.load(file_object), as the caller of load_model does
json_load(file) ==
    [vocab |-> counts_loads(file.vocab), model |-> table_loads(file.model)]

\* ---------------------------------------------------- Round trip: actions
\* b = NGramBuilder(n); b.add_source(...); b.save(file);
\* g = NGramGenerator(); g.load_model(json.load(file))
RoundAddSource(source) ==
    /\ result.op = "init"
    /\ DoAddSource(source)

DoSaveAndLoad ==
    /\ result.op = "init"
    /\ \E r \in {load_model(None, json_load(json_dump(builder_data(builder))))} :
        /\ param_n' = r.param_n
        /\ vocab' = r.vocab
        /\ model' = r.model
        /\ vocab_spreadout' = r.vocab_spreadout
        /\ result' = Outcome("load", r.exc, r.msg, None)
    /\ UNCHANGED <<state, started, build_vars, tok_vars, merge_vars>>

RoundTrain == \E source \in Texts : RoundAddSource(source)

RoundNext == RoundTrain \/ DoSaveAndLoad

SpecRound == BuildInit /\ [][RoundNext]_vars

\* ------------------------------------------------ Builder: copy, __add__
\* A heap h is the Builder objects by the name of the variable that holds
\* them (h.blds) and the dict objects by reference (h.objs); the fields
\* vocab and model of a Builder hold references.

\* A reference to a new object: the dicts are kept in the order of their
\* references, 1, 2, ...
alloc(heap_objs) == Len(heap_objs) + 1

\* name = NGramBuilder(n), with its two new dicts
construct(h, name, n) ==
    LET vocab_ref == alloc(h.objs)
        objs1 == Append(h.objs, <<>>)
        model_ref == alloc(objs1)
    IN  [blds |-> [x \in DOMAIN h.blds \cup {name} |->
                      IF x = name
                      THEN [n |-> n, vocab |-> vocab_ref, model |-> model_ref]
                      ELSE h.blds[x]],
         objs |-> Append(objs1, <<>>)]

\* The fields of the Builder called name, with the dicts they refer to.
fields_of(h, name) ==
    [n |-> h.blds[name].n,
     vocab |-> h.objs[h.blds[name].vocab],
     model |-> h.objs[h.blds[name].model]]

\* copy with duplicate.vocab = self.vocab and duplicate.model = self.model
copy_sharing_dicts(h, self) ==
    [blds |-> [x \in DOMAIN h.blds \cup {"duplicate"} |->
                  IF x = "duplicate" THEN h.blds[self] ELSE h.blds[x]],
     objs |-> h.objs]

\* duplicate = self.copy(): a new Builder whose dicts are new objects with
\* the contents of self's (deepcopy); they take the place of the empty
\* dicts that __init__ made.
copy(h, self) ==
    LET h1 == construct(h, "duplicate", h.blds[self].n)
        duplicate == h1.blds["duplicate"]
    IN  [blds |-> h1.blds,
         objs |-> [h1.objs EXCEPT
                      ![duplicate.vocab] = h.objs[h.blds[self].vocab],
                      ![duplicate.model] = h.objs[h.blds[self].model]]]

\* d[k] += 1 where the code has d[k] += count
increase_by_one(d, k, count) == increment(d, k)

\* d[k] += count on a defaultdict(int)
increase(d, k, count) ==
    [x \in DOMAIN d \cup {k} |->
        IF x = k THEN (IF k \in DOMAIN d THEN d[k] ELSE 0) + count ELSE d[x]]

\* The loop that stores the other Builder's count in place of adding it.
add_counts_overwriting(d, other) ==
    [x \in DOMAIN d \cup DOMAIN other |->
        IF x \in DOMAIN other THEN other[x] ELSE d[x]]

\* for token, count in other.items(): d[token] += count
RECURSIVE add_counts(_, _)
add_counts(d, other) ==
    IF DOMAIN other = {} THEN d
    ELSE LET token == CHOOSE x \in DOMAIN other : TRUE
         IN  add_counts(increase(d, token, other[token]),
                        [x \in DOMAIN other \ {token} |-> other[x]])

\* for key, next_tokens in other.items():
\*     for token, count in next_tokens.items(): m[key][token] += count
RECURSIVE add_tables(_, _)
add_tables(m, other) ==
    IF DOMAIN other = {} THEN m
    ELSE LET key == CHOOSE k \in DOMAIN other : TRUE
             next_tokens == other[key]
             rest == [k \in DOMAIN other \ {key} |-> other[k]]
         IN  IF DOMAIN next_tokens = {} THEN add_tables(m, rest)
             ELSE add_tables(
                      [k \in DOMAIN m \cup {key} |->
                          IF k = key
                          THEN add_counts(IF key \in DOMAIN m THEN m[key] ELSE <<>>,
                                          next_tokens)
                          ELSE m[k]],
                      rest)

\* The two loops of __add__ in the heap h1 that holds the duplicate: the
\* counts of other_builder's vocab, then those of its model, are added into
\* the duplicate's dicts.
add_loops(h1, other_builder) ==
    LET duplicate == h1.blds["duplicate"]
        other == h1.blds[other_builder]
    IN  CHOOSE returned \in
            {[exc |-> "ok", msg |-> "", blds |-> h1.blds,
              objs |-> [objs2 EXCEPT
                           ![duplicate.model] = add_tables(@, objs2[other.model])]] :
             objs2 \in {[h1.objs EXCEPT
                            ![duplicate.vocab] =
                                add_counts(@, h1.objs[other.vocab])]}} : TRUE

\* self + other_builder without the comparison of the orders
add_unchecked(h, self, other_builder) ==
    CHOOSE returned \in
        {add_loops(h1, other_builder) : h1 \in {copy(h, self)}} : TRUE

\* self + other_builder: the heap after the call, in which the returned
\* Builder is called "duplicate", or the exception raised.
add(h, self, other_builder) ==
    IF h.blds[self].n # h.blds[other_builder].n
    THEN [exc |-> "ValueError",
          msg |-> "Adding Incompatible Models: N not same.",
          blds |-> h.blds, objs |-> h.objs]
    ELSE CHOOSE returned \in
             {add_loops(h1, other_builder) : h1 \in {copy(h, self)}} : TRUE

\* target = <the Builder called "duplicate">: the variable target holds the
\* returned Builder, and the objects no variable leads to are gone.  What
\* remains is renumbered in the order of the references, which no code
\* observes.
assign(h, target) ==
    LET bound == [x \in (DOMAIN h.blds \ {"duplicate"}) \cup {target} |->
                     IF x = target THEN h.blds["duplicate"] ELSE h.blds[x]]
    IN  CHOOSE after \in
            {IF live = DOMAIN heap_objs
             THEN [blds |-> b, objs |-> heap_objs]
             ELSE [blds |-> [x \in DOMAIN b |->
                      [n |-> b[x].n,
                       vocab |-> Cardinality({ref \in live : ref <= b[x].vocab}),
                       model |-> Cardinality({ref \in live : ref <= b[x].model})]],
                   objs |-> [new \in 1 .. Cardinality(live) |->
                      heap_objs[CHOOSE ref \in live :
                          Cardinality({other \in live : other <= ref}) = new]]] :
             b \in {bound},
             live \in {UNION {{bound[x].vocab, bound[x].model} : x \in DOMAIN bound}},
             heap_objs \in {h.objs}} : TRUE

\* ---------------------------------------------------------- Merge: actions
\* a = NGramBuilder(na); b = NGramBuilder(nb), then any of
\* x.add_source(text) and r = x + y, for x and y among a, b and r.
\* The texts "A.", ".A" and "A.A": of two and of three tokens, with windows
\* in common.
MergeTexts == {<<"A", ".">>, <<".", "A">>, <<"A", ".", "A">>}

\* The orders of which these texts have windows.
MergeOrders == {2, 3}

MergeInit ==
    /\ \E na, nb \in MergeOrders :
        LET h == construct(construct([blds |-> <<>>, objs |-> <<>>], "a", na),
                           "b", nb)
        IN  blds = h.blds /\ objs = h.objs
    /\ mdocs = [x \in {"a", "b"} |-> <<>>]
    /\ adds = 0
    /\ mresult = [exc |-> "ok", msg |-> ""]
    /\ GenIdle
    /\ result = Outcome("init", "ok", "", None)
    /\ builder = NGramBuilder(2)
    /\ docs = <<>>
    /\ TokIdle

\* x.add_source(source): the dicts of x are changed in place
MergeAddSource(x, source) ==
    /\ x \in DOMAIN blds
    /\ adds < MaxAdds
    /\ \E after \in {add_source(fields_of([blds |-> blds, objs |-> objs], x),
                                 source)} :
        objs' = [ref \in DOMAIN objs |->
                    IF ref = blds[x].model THEN after.model
                    ELSE IF ref = blds[x].vocab THEN after.vocab
                    ELSE objs[ref]]
    /\ mdocs' = [mdocs EXCEPT ![x] = Append(@, source)]
    /\ adds' = adds + 1
    /\ mresult' = [exc |-> "ok", msg |-> ""]
    /\ UNCHANGED <<blds, gen_vars, build_vars, tok_vars>>

\* r = x + y
DoAdd(x, y) ==
    /\ x \in DOMAIN blds /\ y \in DOMAIN blds
    /\ Len(mdocs[x]) + Len(mdocs[y]) <= MaxAdds
    /\ \E res \in {add([blds |-> blds, objs |-> objs], x, y)} :
        /\ mresult' = [exc |-> res.exc, msg |-> res.msg]
        /\ IF res.exc = "ok"
           THEN \E h \in {assign(res, "r")} :
                   /\ blds' = h.blds
                   /\ objs' = h.objs
                   /\ mdocs' = [name \in DOMAIN h.blds |->
                                   IF name = "r" THEN mdocs[x] \o mdocs[y]
                                   ELSE mdocs[name]]
           ELSE UNCHANGED <<blds, objs, mdocs>>
    /\ UNCHANGED <<adds, gen_vars, build_vars, tok_vars>>

Names == {"a", "b", "r"}

MergeTrain == \E x \in Names, source \in MergeTexts : MergeAddSource(x, source)
MergeAdd == \E x, y \in Names : DoAdd(x, y)

MergeNext == MergeTrain \/ MergeAdd

SpecMerge == MergeInit /\ [][MergeNext]_vars

\* ---------------------------------------------------- Tokenizer: actions
\* Characters of the texts given to generate_tokens alone: those of the
\* training texts and the apostrophe and the letter t, which the tokenizer
\* treats specially.
TokAlphabet == Alphabet \cup {"'", "t"}

TokTexts == UNION {[1 .. k -> TokAlphabet] : k \in 0 .. MaxTextLen}

TokInit ==
    /\ raw_text \in TokTexts
    /\ tokenized = None
    /\ GenIdle
    /\ result = Outcome("init", "ok", "", None)
    /\ builder = NGramBuilder(2)
    /\ docs = <<>>
    /\ MergeIdle

\* tokenized = NGramBuilder.generate_tokens(raw_text)
DoGenerateTokens ==
    /\ tokenized = None
    /\ tokenized' = Some(generate_tokens(raw_text))
    /\ UNCHANGED <<raw_text, gen_vars, build_vars, merge_vars>>

TokNext == DoGenerateTokens

SpecTok == TokInit /\ [][TokNext]_vars

\* ---------------------------------------------------- Generator: actions
GenInit ==
    /\ param_n = None
    /\ vocab = None
    /\ model = None
    /\ state = None
    /\ vocab_spreadout = None
    /\ result = Outcome("init", "ok", "", None)
    /\ started = FALSE
    /\ builder = NGramBuilder(2)
    /\ docs = <<>>
    /\ TokIdle
    /\ MergeIdle

DoLoadModel(data) ==
    \E r \in {load_model(vocab_spreadout, data)} :
        /\ param_n' = r.param_n
        /\ vocab' = r.vocab
        /\ model' = r.model
        /\ vocab_spreadout' = r.vocab_spreadout
        /\ result' = Outcome("load", r.exc, r.msg, None)
        /\ UNCHANGED <<state, started>>
        /\ UNCHANGED <<build_vars, tok_vars, merge_vars>>

DoCall(init_key) ==
    \E r \in {call(param_n, init_key)} :
        /\ state' = r.state
        /\ result' = Outcome("start", r.exc, r.msg, None)
        /\ started' = (started \/ r.exc = "ok")
        /\ UNCHANGED <<param_n, vocab, model, vocab_spreadout>>
        /\ UNCHANGED <<build_vars, tok_vars, merge_vars>>

DoNext ==
    \E r \in next(param_n, vocab, model, vocab_spreadout, state) :
        /\ state' = r.state
        /\ result' = Outcome("step", r.exc, r.msg, r.tok)
        /\ UNCHANGED <<param_n, vocab, model, vocab_spreadout, started>>
        /\ UNCHANGED <<build_vars, tok_vars, merge_vars>>

LoadStep == \E data \in ModelData : DoLoadModel(data)
CallStep == \E init_key \in Seeds : DoCall(init_key)

GenNext == LoadStep \/ CallStep \/ DoNext

SpecGen == GenInit /\ [][GenNext]_vars

\* ------------------------------------------------------ Generator: claims
Loaded == param_n # None /\ vocab # None /\ model # None

HasFields(data) == "vocab" \in DOMAIN data /\ "model" \in DOMAIN data

KeySizes(m) == {Len(split(k)) : k \in DOMAIN m}

\* Element-wise sum of two dicts of counts.
SumCounts(d1, d2) ==
    [t \in DOMAIN d1 \cup DOMAIN d2 |->
        (IF t \in DOMAIN d1 THEN d1[t] ELSE 0)
        + (IF t \in DOMAIN d2 THEN d2[t] ELSE 0)]

\* Element-wise sum of two tables.
SumTables(m1, m2) ==
    [k \in DOMAIN m1 \cup DOMAIN m2 |->
        SumCounts(IF k \in DOMAIN m1 THEN m1[k] ELSE <<>>,
                  IF k \in DOMAIN m2 THEN m2[k] ELSE <<>>)]

\* Number of tokens of a seed.
SeedTokenCount(init_key) ==
    IF init_key.type = "str" THEN Len(split(init_key.value))
    ELSE Len(init_key.value)

\* C1: a load that fails on a Generator holding a loaded model leaves its
\* vocab, table and n exactly as they were before the call.
C1_FailedLoadKeepsState ==
    [][(result'.op = "load" /\ result'.exc # "ok" /\ Loaded)
        => (vocab' = vocab /\ model' = model /\ param_n' = param_n)]_vars

\* C2: a successful load of a model of the same order onto a Generator
\* holding a loaded model leaves vocab and table the element-wise sum of
\* the counts held before and the counts loaded.
C2_LoadAccumulates ==
    [][(result'.op = "load" /\ result'.exc = "ok" /\ Loaded /\ param_n' = param_n)
        => \A data \in ModelData :
              DoLoadModel(data)
              => /\ vocab' = Some(SumCounts(Get(vocab), data.vocab))
                 /\ model' = Some(SumTables(Get(model), data.model))]_vars

\* C3: once n is set, loading a well-formed model whose keys imply another
\* n fails and leaves n, vocab and table as they were.
C3_OrderMismatchRejected ==
    [][(result'.op = "load" /\ Loaded)
        => \A data \in ModelData :
              (/\ DoLoadModel(data)
               /\ HasFields(data)
               /\ Cardinality(KeySizes(data.model)) = 1
               /\ KeySizes(data.model) # {Get(param_n) - 1})
              => /\ result'.exc # "ok"
                 /\ vocab' = vocab /\ model' = model /\ param_n' = param_n]_vars

\* C4: on a loaded Generator start(seed) fails exactly when the seed's token
\* count differs from n - 1, and a failed start leaves the generation state
\* as it was before the call.
C4_FailedStartKeepsState ==
    [][(result'.op = "start" /\ Loaded)
        => /\ \A init_key \in Seeds :
                 DoCall(init_key)
                 => (result'.exc # "ok"
                        <=> SeedTokenCount(init_key) # Get(param_n) - 1)
           /\ (result'.exc # "ok" => state' = state)]_vars

\* C5: whenever the generation state is set on a Generator of order n, it
\* is a window of exactly n - 1 tokens.
C5_StateIsWindow ==
    (state # None /\ param_n # None) => Len(Get(state)) = Get(param_n) - 1

\* C6 (as stated): every token returned by step() is a key of vocab.
C6_StepTokenInVocab ==
    (result.op = "step" /\ result.exc = "ok")
        => Get(result.tok) \in DOMAIN Get(vocab)

\* Every next-token that has a positive count in the table is a key of vocab.
TableWithinVocab ==
    \A k \in DOMAIN Get(model) :
        \A t \in DOMAIN Get(model)[k] :
            Get(model)[k][t] > 0 => t \in DOMAIN Get(vocab)

\* C6 (amended): when every next-token with a positive count in the loaded
\* table is a key of vocab, every token returned by step() is a key of vocab.
C6_StepTokenInVocabOfClosedModel ==
    (result.op = "step" /\ result.exc = "ok" /\ TableWithinVocab)
        => Get(result.tok) \in DOMAIN Get(vocab)

\* A step returned a token under a table that is within a vocab lacking
\* token b.
C6_Witness ==
    /\ result.op = "step" /\ result.exc = "ok"
    /\ TableWithinVocab
    /\ tok_b \notin DOMAIN Get(vocab)
    /\ Get(result.tok) \in DOMAIN Get(vocab)

\* C7: after a successful load and a successful start, every step() returns
\* a token and none raises.
C7_StepAlwaysReturns ==
    [][(result'.op = "step" /\ Loaded /\ started)
        => (result'.exc = "ok" /\ result'.tok # None)]_vars

\* NotStarted is what __next__ raises when state is None (line 186).
NotStarted == "StopIteration"

\* C8: while no start call has succeeded, step() fails with NotStarted and
\* returns no token.
C8_StepBeforeStartFails ==
    [][(result'.op = "step" /\ ~started)
        => (result'.exc = NotStarted /\ result'.tok = None)]_vars

\* What load_model raises for keys of differing token counts (line 104).
InconsistentOrder ==
    [exc |-> "ValueError", msg |-> "Broken model file: non-uniform parameter N"]

\* C9: load succeeds only on a model with at least one context key and keys
\* of one token count; an empty model mapping and keys of differing token
\* counts fail with two distinguishable errors; after either failure the
\* Generator holds no part of the rejected model.
C9_EmptyAndInconsistentRejected ==
    [][result'.op = "load"
        => \A data \in ModelData :
              (DoLoadModel(data) /\ HasFields(data))
              => /\ result'.exc = "ok" <=> Cardinality(KeySizes(data.model)) = 1
                 /\ Cardinality(KeySizes(data.model)) > 1
                        => [exc |-> result'.exc, msg |-> result'.msg] = InconsistentOrder
                 /\ DOMAIN data.model = {}
                        => /\ result'.exc # "ok"
                           /\ [exc |-> result'.exc, msg |-> result'.msg] # InconsistentOrder
                 /\ result'.exc # "ok"
                        => /\ vocab' = None /\ model' = None /\ param_n' = None
                           /\ vocab_spreadout' = vocab_spreadout]_vars

\* The outcomes of a step from the current state that return a token.
StepReturns ==
    {r \in next(param_n, vocab, model, vocab_spreadout, state) : r.exc = "ok"}

\* The tokens the sampling rule allows from the current state.
SamplingCandidates ==
    LET key == join(Get(state))
        table == Get(model)
    IN  IF key \in DOMAIN table
        THEN {token \in DOMAIN table[key] : table[key][token] > 0}
        ELSE {token \in DOMAIN Get(vocab) : Get(vocab)[token] > 0}

\* A model is loaded and the state is a window of n - 1 tokens.
ReadyToStep ==
    /\ Loaded
    /\ state # None
    /\ Len(Get(state)) = Get(param_n) - 1

\* C17: from a loaded Generator whose state is a window of n - 1 tokens, the
\* tokens a step can return are exactly the next-tokens of positive count
\* in table[key] when the key (the state joined by spaces) is in the table,
\* and exactly the tokens of positive count in vocab when it is not; the
\* state after the step is the old state without its first token, followed
\* by the returned token.
C17_SamplingRule ==
    ReadyToStep =>
        /\ {Get(r.tok) : r \in StepReturns} = SamplingCandidates
        /\ \A r \in StepReturns :
               r.state = Some(Tail(Get(state)) \o <<Get(r.tok)>>)

\* The sampling rule holds of the Generators of an order n >= 2.
SamplingRuleOfOrderAtLeastTwo ==
    (ReadyToStep /\ Get(param_n) < 2) \/ C17_SamplingRule

\* -------------------------------------------------------- Builder: claims
\* Sum of the values of a function of finite domain
RECURSIVE SumValues(_)
SumValues(f) ==
    IF DOMAIN f = {} THEN 0
    ELSE LET x == CHOOSE y \in DOMAIN f : TRUE
         IN  f[x] + SumValues([y \in DOMAIN f \ {x} |-> f[y]])

\* The positions <<d, i>> of document d at which a window of n tokens starts
WindowPositions(n) ==
    {<<d, i>> \in (1 .. Len(docs)) \X (1 .. MaxTextLen + 1) :
        i + n - 1 <= Len(docs[d])}

\* Number of positions where the tokens of key are immediately followed by
\* next_token
Followed(n, key, next_token) ==
    Cardinality({p \in WindowPositions(n) :
        /\ SubSeq(docs[p[1]], p[2], p[2] + n - 2) = split(key)
        /\ docs[p[1]][p[2] + n - 1] = next_token})

\* Number of occurrences of token in all documents
Occurrences(token) ==
    Cardinality({<<d, i>> \in (1 .. Len(docs)) \X (1 .. MaxTextLen + 1) :
        i <= Len(docs[d]) /\ docs[d][i] = token})

MaxOf(a, b) == IF a >= b THEN a ELSE b

\* C10: on a Builder of order n >= 2, table[key][next] is the number of
\* positions in the documents added where the n - 1 tokens of key are
\* immediately followed by next, the table counts sum to the sum of
\* max(0, L_i - n + 1), and vocab[t] is the number of occurrences of t in
\* all documents added.
C10_AddSourceCountsExactly ==
    builder.n >= 2 =>
        LET n == builder.n
            RowSums == [k \in DOMAIN builder.model |-> SumValues(builder.model[k])]
            Windows == [d \in 1 .. Len(docs) |-> MaxOf(0, Len(docs[d]) - n + 1)]
        IN  /\ \A k \in DOMAIN builder.model :
                   \A t \in DOMAIN builder.model[k] :
                       builder.model[k][t] = Followed(n, k, t)
            /\ \A p \in WindowPositions(n) :
                   LET k == join(SubSeq(docs[p[1]], p[2], p[2] + n - 2))
                   IN  /\ k \in DOMAIN builder.model
                       /\ docs[p[1]][p[2] + n - 1] \in DOMAIN builder.model[k]
            /\ SumValues(RowSums) = SumValues(Windows)
            /\ \A t \in DOMAIN builder.vocab : builder.vocab[t] = Occurrences(t)
            /\ \A d \in 1 .. Len(docs) : \A i \in 1 .. Len(docs[d]) :
                   docs[d][i] \in DOMAIN builder.vocab

\* Two documents were added to a Builder of order n >= 2, one shorter than
\* n and one not, with a token in common that vocab counts in both.
C10_Witness ==
    /\ builder.n >= 2
    /\ Len(docs) = 2
    /\ \E i, j \in 1 .. 2 :
          /\ 0 < Len(docs[i]) /\ Len(docs[i]) < builder.n
          /\ Len(docs[j]) >= builder.n
          /\ \E t \in DOMAIN builder.vocab :
                /\ Occurrences(t) >= 2
                /\ builder.vocab[t] = Occurrences(t)
                /\ \E x \in 1 .. Len(docs[i]) : docs[i][x] = t
                /\ \E y \in 1 .. Len(docs[j]) : docs[j][y] = t
          /\ builder.model # <<>>

\* C15: a Builder never has an order n below 2, and so never an empty
\* context key or no context window at all: constructing it would have been
\* rejected.
C15_OrderAtLeastTwo ==
    /\ builder.n >= 2
    /\ key_empty \notin DOMAIN builder.model

\* ---------------------------------------------------------- Merge: claims
Heap == [blds |-> blds, objs |-> objs]

Fields(x) == fields_of(Heap, x)

FieldsAfter(x) == fields_of([blds |-> blds', objs |-> objs'], x)

IncompatibleModel == "ValueError"

\* C11: r = x + y for Builders of equal n binds r to a Builder whose vocab
\* and table are the element-wise sums of the operands' (the doubles when x
\* and y are the same Builder) and whose n is theirs, and leaves the
\* Builders a and b as they were; and r.add_source, whatever r was merged
\* from, leaves a and b as they were.
C11_AddIsPureCombine ==
    [][/\ \A x, y \in Names :
            (x \in DOMAIN blds /\ y \in DOMAIN blds /\ blds[x].n = blds[y].n
                /\ adds' = adds /\ DoAdd(x, y)) =>
                /\ mresult'.exc = "ok"
                /\ "r" \in DOMAIN blds'
                /\ FieldsAfter("r").n = Fields(x).n
                /\ FieldsAfter("r").vocab
                       = SumCounts(Fields(x).vocab, Fields(y).vocab)
                /\ FieldsAfter("r").model
                       = SumTables(Fields(x).model, Fields(y).model)
                /\ x = y => \A token \in DOMAIN Fields(x).vocab :
                       FieldsAfter("r").vocab[token] = 2 * Fields(x).vocab[token]
                /\ FieldsAfter("a") = Fields("a")
                /\ FieldsAfter("b") = Fields("b")
       /\ \A source \in MergeTexts :
            ("r" \in DOMAIN blds /\ adds' = adds + 1
                /\ MergeAddSource("r", source)) =>
                /\ FieldsAfter("a") = Fields("a")
                /\ FieldsAfter("b") = Fields("b")
                /\ FieldsAfter("r") # Fields("r")]_vars

\* r is a + b of two Builders that share a token and a context key, and is
\* neither of them.
C11_Witness ==
    /\ "r" \in DOMAIN blds
    /\ mdocs["a"] # <<>> /\ mdocs["b"] # <<>>
    /\ mdocs["r"] = mdocs["a"] \o mdocs["b"]
    /\ Fields("r").vocab = SumCounts(Fields("a").vocab, Fields("b").vocab)
    /\ Fields("r").model = SumTables(Fields("a").model, Fields("b").model)
    /\ DOMAIN Fields("a").model \cap DOMAIN Fields("b").model # {}
    /\ Fields("r") # Fields("a") /\ Fields("r") # Fields("b")

\* The vocab and the table of the Builder called name in the heap h.
counts_of(h, name) ==
    [vocab |-> fields_of(h, name).vocab, model |-> fields_of(h, name).model]

\* The heap after t = x + y
Bound(h, x, y, t) ==
    CHOOSE after \in {assign(res, t) : res \in {add(h, x, y)}} : TRUE

\* C13: for all Builders x, y, z of the same n, x + y and y + x have equal
\* vocab and table, and so have (x + y) + z and x + (y + z).
C13_AddCommutativeAssociative ==
    \A sum \in {[x, y \in DOMAIN blds |->
                    IF blds[x].n = blds[y].n THEN Bound(Heap, x, y, "t")
                    ELSE Heap]} :
        \A x, y, z \in DOMAIN blds :
            (blds[x].n = blds[y].n /\ blds[y].n = blds[z].n) =>
                /\ counts_of(sum[x, y], "t") = counts_of(sum[y, x], "t")
                /\ counts_of(Bound(sum[x, y], "t", z, "u"), "u")
                       = counts_of(Bound(sum[y, z], x, "t", "u"), "u")

\* Three Builders of one order with three different tables, two of which
\* differ in the count of a shared token.
C13_Witness ==
    /\ "r" \in DOMAIN blds
    /\ blds["a"].n = blds["b"].n
    /\ Fields("a").model # <<>> /\ Fields("b").model # <<>>
    /\ Fields("a").model # Fields("b").model
    /\ Fields("r").model # Fields("a").model
    /\ Fields("r").model # Fields("b").model
    /\ \E token \in DOMAIN Fields("a").vocab \cap DOMAIN Fields("b").vocab :
           Fields("a").vocab[token] # Fields("b").vocab[token]

\* C14: r = x + y for Builders of different n raises the error of
\* incompatible models, binds r to no Builder and leaves every Builder and
\* every dict as it was.
C14_AddOfDifferentOrdersFails ==
    [][\A x, y \in Names :
          (x \in DOMAIN blds /\ y \in DOMAIN blds /\ blds[x].n # blds[y].n
              /\ DoAdd(x, y)) =>
              /\ mresult'.exc = IncompatibleModel
              /\ mresult'.msg = "Adding Incompatible Models: N not same."
              /\ blds' = blds
              /\ objs' = objs]_vars

\* A merge has just failed, of two Builders that have learned a text each.
C14_Witness ==
    /\ mresult.exc = IncompatibleModel
    /\ blds["a"].n # blds["b"].n
    /\ Fields("a").vocab # <<>> /\ Fields("b").vocab # <<>>

\* The Builder NGramBuilder(n) becomes by add_source of the texts, in order.
RECURSIVE Trained(_, _)
Trained(n, texts) ==
    IF texts = <<>> THEN NGramBuilder(n)
    ELSE add_source(Trained(n, SubSeq(texts, 1, Len(texts) - 1)),
                    texts[Len(texts)])

\* C18: r = x + y, for x and y among the Builders a and b, which are built
\* from new Builders by add_source only, binds r to a Builder with the vocab
\* and the table of a new Builder of their order given x's texts and then
\* y's texts by add_source.
C18_AddIsTrainingOnBoth ==
    [][\A x, y \in {"a", "b"} :
          (blds[x].n = blds[y].n /\ adds' = adds /\ DoAdd(x, y)) =>
              /\ "r" \in DOMAIN blds'
              /\ FieldsAfter("r") = Trained(blds[x].n, mdocs[x] \o mdocs[y])]_vars

\* r is a + b or b + a, a and b having learned different texts, one of them
\* with a token twice.
C18_Witness ==
    /\ "r" \in DOMAIN blds
    /\ mdocs["a"] # <<>> /\ mdocs["b"] # <<>> /\ mdocs["a"] # mdocs["b"]
    /\ mdocs["r"] \in {mdocs["a"] \o mdocs["b"], mdocs["b"] \o mdocs["a"]}
    /\ Fields("r") = Trained(blds["a"].n, mdocs["r"])
    /\ Fields("r").model # <<>>
    /\ \E token \in DOMAIN Fields("a").vocab : Fields("a").vocab[token] >= 2

\* C19: every context key of the table of every Builder of an order n >= 2,
\* split on spaces, has n - 1 tokens, whatever add_source calls and merges
\* made the Builder.
C19_KeysHaveOrderMinusOneTokens ==
    \A x \in DOMAIN blds :
        blds[x].n >= 2 =>
            \A key \in DOMAIN Fields(x).model :
                Len(split(key)) = blds[x].n - 1

\* A merged Builder that has then learned a text, with two context keys.
C19_Witness ==
    /\ "r" \in DOMAIN blds
    /\ blds["r"].n >= 2
    /\ Len(mdocs["r"]) = 2
    /\ Fields("r") # Fields("a") /\ Fields("r") # Fields("b")
    /\ Cardinality(DOMAIN Fields("r").model) >= 2

\* ----------------------------------------------------- Round trip: claims
RoundTripEqual ==
    /\ result.exc = "ok"
    /\ model = Some(builder.model)
    /\ vocab = Some(builder.vocab)
    /\ param_n = Some(builder.n)

\* C12: the serialized form of a Builder (of an order n >= 2) trained on any
\* text loads into a new Generator, whose table, vocab and n then equal the
\* Builder's.
C12_RoundTrip ==
    (result.op = "load" /\ docs # <<>> /\ builder.n >= 2) => RoundTripEqual

\* C12, for the Builders with a table that is not empty (order n >= 1 and a
\* text of at least n tokens): the load succeeds with equal table, vocab and
\* n; with an empty table the load fails and the Generator holds no model.
C12_RoundTripOfNonEmptyTable ==
    (result.op = "load" /\ docs # <<>>) =>
        IF DOMAIN builder.model # {}
        THEN RoundTripEqual
        ELSE result.exc = "ValueError" /\ ~Loaded

C12_Witness ==
    /\ result.op = "load"
    /\ Len(docs) = 2
    /\ Cardinality(DOMAIN builder.model) >= 2
    /\ \E token \in DOMAIN builder.vocab : builder.vocab[token] >= 2
    /\ RoundTripEqual

\* ------------------------------------------------------ Tokenizer: claims
ellipsis == <<".", ".", ".">>

\* s occurs in t as a substring
Contains(t, s) ==
    \E i \in 0 .. Len(t) - Len(s) : SubSeq(t, i + 1, i + Len(s)) = s

\* C16: the tokens of a text in which "..." occurs contain the single token
\* "...", and the three periods are not returned as three "." tokens.
C16_EllipsisIsOneToken ==
    (tokenized # None /\ Contains(raw_text, ellipsis)) =>
        /\ \E i \in DOMAIN Get(tokenized) : Get(tokenized)[i] = ellipsis
        /\ ~Contains(Get(tokenized), <<<<".">>, <<".">>, <<".">>>>)

====
